---- MODULE Spec2Model ----
(***************************************************************************)
(* Model of the fixed-width multi-precision integer library bigi:          *)
(* Bigi<N> is an array of N machine words, least significant first.        *)
(* The machine word is scaled from 64 bits to WordBits bits, the double    *)
(* word (u128) to 2*WordBits bits; every wrapping operation of the code    *)
(* wraps at the scaled width.                                              *)
(***************************************************************************)
EXTENDS Integers, Sequences, FiniteSets, TLC

\* Number of words of a Bigi (the const generic N of Bigi<N>).
N == 3

\* Bits of one machine word (u64 in the source, scaled).
WordBits == 2

\* Number of values of one word (2^64 in the source).
Base == 2 ^ WordBits

\* Number of values of a double word (u128 in the source).
DBase == Base * Base

\* Total width in bits (64 * N in the source).
TotalBits == WordBits * N

\* Number of values of a Bigi<N>.
Modulus == 2 ^ TotalBits

Idx == 0 .. (N - 1)

\* The type Bigi<N>: pub digits: [u64; N].
Bigi == [Idx -> 0 .. (Base - 1)]

\* Bigi::new(): the zero integer.
new == [i \in Idx |-> 0]

\* From<u64> for Bigi<N>: the word z in digit 0, zero elsewhere.
from(z) == [i \in Idx |-> IF i = 0 THEN z % Base ELSE 0]

\* The exact integer a digit array denotes (sum of digits[i] * Base^i).
RECURSIVE ValFrom(_, _)
ValFrom(d, i) == IF i = N THEN 0 ELSE d[i] + Base * ValFrom(d, i + 1)

Val(d) == ValFrom(d, 0)

\* The digit array of an integer v in 0 .. Modulus - 1.
ToBigi(v) == [i \in Idx |-> (v \div (Base ^ i)) % Base]

\* Digits the inputs are built from: the carry and borrow boundary values of
\* a word (every word value when WordBits = 2).
DigitSamples == {0, 1, Base - 2, Base - 1}

Inputs == [Idx -> DigitSamples]

(***************************************************************************)
(* operations.rs: predicates and probes                                    *)
(***************************************************************************)

is_zero(self) == \A i \in Idx : ~(self[i] > 0)

is_odd(self) == self[0] % 2 = 1

is_even(self) == self[0] % 2 = 0

RECURSIVE get_order_loop(_, _)
get_order_loop(self, idx) ==
    IF (idx > 0) /\ (self[idx - 1] = 0)
    THEN get_order_loop(self, idx - 1)
    ELSE idx

get_order(self) == get_order_loop(self, N)

\* The first step s of the binary search in bit_length (32 for 64-bit words):
\* the power of two with s < WordBits <= 2 * s.
HalfWord ==
    CHOOSE s \in 1 .. WordBits :
        /\ \E e \in 0 .. WordBits : s = 2 ^ e
        /\ s < WordBits
        /\ WordBits <= 2 * s

RECURSIVE bit_length_loop(_, _, _)
bit_length_loop(val, r, s) ==
    IF s > 0
    THEN bit_length_loop(val, IF val >= 2 ^ (r + s) THEN r + s ELSE r, s \div 2)
    ELSE r

bit_length(self) ==
    LET idx == get_order(self)
    IN  IF idx > 0
        THEN ((idx - 1) * WordBits) + bit_length_loop(self[idx - 1], 0, HalfWord) + 1
        ELSE 0

get_bit(self, bit) ==
    LET quot == bit \div WordBits
        rem == bit % WordBits
    IN  ((self[quot] \div (2 ^ rem)) % 2) # 0

RECURSIVE lead_u128_loop(_, _)
lead_u128_loop(self, i) ==
    IF i < 0 THEN 0
    ELSE IF self[i] # 0
         THEN IF i = 0 THEN self[i] ELSE (self[i] * Base) + self[i - 1]
         ELSE lead_u128_loop(self, i - 1)

lead_u128(self) == lead_u128_loop(self, N - 1)

(***************************************************************************)
(* operations.rs: addition, subtraction, multiplication                    *)
(***************************************************************************)

\* One word of add_assign with the carry dropped when the incoming carry
\* makes the word wrap.
add_word_lostcarry(s, o, fw) ==
    LET pair0 == (s + o) % Base
        pair1 == (s + o) >= Base
        d == (pair0 + fw) % Base
    IN  [digit |-> d, fw |-> IF pair1 THEN 1 ELSE 0]

\* One iteration of the loop of add_assign.
add_word(s, o, fw) ==
    LET pair0 == (s + o) % Base
        pair1 == (s + o) >= Base
        d == (pair0 + fw) % Base
    IN  [digit |-> d, fw |-> IF pair1 \/ (fw = 1 /\ d = 0) THEN 1 ELSE 0]

\* The loop of add_assign; .fw is the carry out of the last word, which the
\* code drops.
RECURSIVE add_assign_loop(_, _, _, _)
add_assign_loop(self, other, fw, i) ==
    IF i = N THEN [digits |-> self, fw |-> fw]
    ELSE LET w == add_word(self[i], other[i], fw)
         IN  add_assign_loop([self EXCEPT ![i] = w.digit], other, w.fw, i + 1)

add_assign(self, other) == add_assign_loop(self, other, 0, 0).digits

add(self, other) == add_assign(self, other)

\* One iteration of the loop of sub_assign.
sub_word(s, o, fw) ==
    LET pair0 == (s - o + Base) % Base
        pair1 == s < o
        d == (pair0 - fw + Base) % Base
    IN  [digit |-> d, fw |-> IF pair1 \/ (fw = 1 /\ pair0 = 0) THEN 1 ELSE 0]

\* The loop of sub_assign; .fw is the borrow out of the last word, which the
\* code drops.
RECURSIVE sub_assign_loop(_, _, _, _)
sub_assign_loop(self, other, fw, i) ==
    IF i = N THEN [digits |-> self, fw |-> fw]
    ELSE LET w == sub_word(self[i], other[i], fw)
         IN  sub_assign_loop([self EXCEPT ![i] = w.digit], other, w.fw, i + 1)

sub_assign(self, other) == sub_assign_loop(self, other, 0, 0).digits

sub(self, other) == sub_assign(self, other)

\* The accumulator of mul without the carry of the previous word pair.
mul_acc_nocarry(o, s, r, fw) == (o * s) + r

\* other.digits[i] * self.digits[j] + res.digits[i + j] + fw, as an exact
\* integer; the code holds it in a u128.
mul_acc(o, s, r, fw) == (o * s) + r + fw

\* The inner loop of mul on [res, overflow]; overflow records an accumulator
\* that does not fit the u128.
RECURSIVE mul_inner(_, _, _, _, _, _)
mul_inner(self, other, st, fw, i, j) ==
    IF j = N - i THEN st
    ELSE LET acc == mul_acc(other[i], self[j], st.res[i + j], fw)
             wrapped == acc % DBase
         IN  mul_inner(self, other,
                       [res |-> [st.res EXCEPT ![i + j] = wrapped % Base],
                        overflow |-> st.overflow \/ acc >= DBase],
                       wrapped \div Base, i, j + 1)

RECURSIVE mul_outer(_, _, _, _)
mul_outer(self, other, st, i) ==
    IF i = N THEN st
    ELSE mul_outer(self, other, mul_inner(self, other, st, 0, i, 0), i + 1)

\* Mul::mul with the overflow record of its accumulator.
mul_checked(self, other) ==
    mul_outer(self, other, [res |-> new, overflow |-> FALSE], 0)

mul(self, other) == mul_checked(self, other).res

(***************************************************************************)
(* operations.rs: long division                                            *)
(***************************************************************************)

\* The comparison loop of divide: is the window of the dividend at word shift
\* shf less than the divisor (i runs from order2 - 1 down to 0).
RECURSIVE is_less_loop(_, _, _, _)
is_less_loop(self, divisor, shf, i) ==
    IF i < 0 THEN FALSE
    ELSE IF self[i + shf] > divisor[i] THEN FALSE
    ELSE IF self[i + shf] < divisor[i] THEN TRUE
    ELSE is_less_loop(self, divisor, shf, i - 1)

\* let extra = if order2 + shf < N { self.digits[order2 + shf] } else { 0 }
divide_extra(self, order2, shf) ==
    IF order2 + shf < N THEN self[order2 + shf] ELSE 0

\* The skip test of divide: extra == 0 and the window is less than the divisor.
divide_is_less(self, divisor, order2, shf) ==
    /\ divide_extra(self, order2, shf) = 0
    /\ is_less_loop(self, divisor, shf, order2 - 1)

\* The quotient digit estimate of divide as the u128 value `result`, with the
\* divisor of the estimate lowered by one (bottom instead of bottom + 1).
divide_factor_u128_uncapped(self, divisor, order2, shf, extra) ==
    LET top == lead_u128(self)
        bottom == IF extra > 0
                  THEN divisor[order2 - 1]
                  ELSE IF order2 = 1 /\ shf > 0
                       THEN (lead_u128(divisor) * Base) % DBase
                       ELSE lead_u128(divisor)
    IN  IF top = bottom THEN 1 ELSE top \div bottom

\* The quotient digit estimate of divide as the u128 value `result`, without
\* the case top == bottom (and with bottom + 1 never wrapping).
divide_factor_u128_noequal(self, divisor, order2, shf, extra) ==
    LET top == lead_u128(self)
        bottom == IF extra > 0
                  THEN divisor[order2 - 1]
                  ELSE IF order2 = 1 /\ shf > 0
                       THEN (lead_u128(divisor) * Base) % DBase
                       ELSE lead_u128(divisor)
    IN  top \div (bottom + 1)

\* The quotient digit estimate of divide as the u128 value `result`.
divide_factor_u128(self, divisor, order2, shf, extra) ==
    LET top == lead_u128(self)
        bottom == IF extra > 0
                  THEN divisor[order2 - 1]
                  ELSE IF order2 = 1 /\ shf > 0
                       THEN (lead_u128(divisor) * Base) % DBase
                       ELSE lead_u128(divisor)
    IN  IF top = bottom THEN 1 ELSE top \div ((bottom + 1) % DBase)

\* The quotient digit estimate of divide; result as u64 truncates.
divide_factor(self, divisor, order2, shf, extra) ==
    divide_factor_u128(self, divisor, order2, shf, extra) % Base

\* The quotient digit overwritten instead of accumulated.
divide_accumulate_overwrite(digit, factor) == factor % Base

\* res.digits[shf] += factor.
divide_accumulate(digit, factor) == (digit + factor) % Base

\* The subtraction loop of divide: self -= divisor * factor at word shift shf,
\* fw carrying the high word of the product plus the borrow.
RECURSIVE divide_reduce(_, _, _, _, _, _, _)
divide_reduce(self, divisor, factor, order2, shf, fw, i) ==
    IF i = order2 THEN [self |-> self, fw |-> fw]
    ELSE LET fw1 == ((divisor[i] * factor) + fw) % DBase
             lo == fw1 % Base
             pair0 == (self[i + shf] - lo + Base) % Base
             pair1 == self[i + shf] < lo
             fw2 == (fw1 \div Base) + (IF pair1 THEN 1 ELSE 0)
         IN  divide_reduce([self EXCEPT ![i + shf] = pair0], divisor, factor,
                           order2, shf, fw2, i + 1)

\* One iteration of the loop of divide on the state
\* [self, res, shf, done]; done is set by the break.
divide_step(st, divisor, order2) ==
    LET self == st.self
        shf == st.shf
        extra == divide_extra(self, order2, shf)
        is_less == divide_is_less(self, divisor, order2, shf)
        factor == divide_factor(self, divisor, order2, shf, extra)
        red == divide_reduce(self, divisor, factor, order2, shf, 0, 0)
        reduced == IF red.fw > 0 /\ order2 + shf < N
                   THEN [red.self EXCEPT
                            ![order2 + shf] = (@ - (red.fw % Base) + Base) % Base]
                   ELSE red.self
    IN  IF is_less
        THEN IF shf # 0
             THEN [st EXCEPT !.shf = shf - 1]
             ELSE [st EXCEPT !.done = TRUE]
        ELSE [st EXCEPT !.self = reduced,
                        !.res = [st.res EXCEPT
                                    ![shf] = divide_accumulate(@, factor)]]

RECURSIVE divide_loop(_, _, _)
divide_loop(st, divisor, order2) ==
    IF st.done THEN st ELSE divide_loop(divide_step(st, divisor, order2), divisor, order2)

\* self.divide(divisor): .res is the returned quotient, .self the receiver
\* after the call.
divide(self, divisor) ==
    LET order1 == get_order(self)
        order2 == get_order(divisor)
    IN  IF order1 >= order2
        THEN divide_loop([self |-> self, res |-> new, shf |-> order1 - order2,
                          done |-> FALSE], divisor, order2)
        ELSE [self |-> self, res |-> new, shf |-> 0, done |-> TRUE]

\* The / operator dividing in place instead of on a copy.
div_inplace(self, other) ==
    LET d == divide(self, other) IN [self |-> d.self, out |-> d.res]

\* Div::div: divides a clone of the receiver; .self is the receiver after the
\* call, .out the returned quotient.
div(self, other) ==
    LET dividend == self
        d == divide(dividend, other)
    IN  [self |-> self, out |-> d.res]

\* RemAssign::rem_assign: the receiver becomes the remainder.
rem_assign(self, other) == divide(self, other).self

\* Rem::rem: res = self.clone(); res %= other; .self is the receiver after the
\* call, .out the returned remainder.
rem(self, other) == [self |-> self, out |-> rem_assign(self, other)]

(***************************************************************************)
(* operations.rs: shifts (for a shift count rhs with rhs / WordBits <= N)  *)
(***************************************************************************)

\* The bits carried out of the lower word not added to the upper word.
shl_carry_dropped(digit, extra) == digit

\* self.digits[i + rhs_q + 1] += extra.
shl_carry(digit, extra) == (digit + extra) % Base

\* The loop of shl_assign, i running from N - rhs_q - 1 down to 0.
RECURSIVE shl_assign_loop(_, _, _, _, _)
shl_assign_loop(self, rhs_q, rhs_r, extra, i) ==
    IF i < 0 THEN self
    ELSE LET extra1 == IF rhs_r > 0
                       THEN self[i] \div (2 ^ (WordBits - rhs_r))
                       ELSE extra
             self1 == IF i < N - rhs_q - 1
                      THEN [self EXCEPT ![i + rhs_q + 1] = shl_carry(@, extra1)]
                      ELSE self
             self2 == [self1 EXCEPT ![i + rhs_q] = (self1[i] * (2 ^ rhs_r)) % Base]
         IN  shl_assign_loop(self2, rhs_q, rhs_r, extra1, i - 1)

shl_assign(self, k) ==
    LET rhs_q == k \div WordBits
        rhs_r == k % WordBits
        shifted == shl_assign_loop(self, rhs_q, rhs_r, 0, N - rhs_q - 1)
    IN  [i \in Idx |-> IF i < rhs_q THEN 0 ELSE shifted[i]]

shl(self, k) == shl_assign(self, k)

\* The loop of shr_assign, i running from rhs_q up to N - 1.
RECURSIVE shr_assign_loop(_, _, _, _, _)
shr_assign_loop(self, rhs_q, rhs_r, extra, i) ==
    IF i >= N THEN self
    ELSE LET extra1 == IF rhs_r > 0
                       THEN (self[i] * (2 ^ (WordBits - rhs_r))) % Base
                       ELSE extra
             self1 == [self EXCEPT ![i - rhs_q] = self[i] \div (2 ^ rhs_r)]
             self2 == IF i > rhs_q
                      THEN [self1 EXCEPT ![i - rhs_q - 1] = (@ + extra1) % Base]
                      ELSE self1
         IN  shr_assign_loop(self2, rhs_q, rhs_r, extra1, i + 1)

shr_assign(self, k) ==
    LET rhs_q == k \div WordBits
        rhs_r == k % WordBits
        shifted == shr_assign_loop(self, rhs_q, rhs_r, 0, rhs_q)
    IN  [i \in Idx |-> IF N - i - 1 < rhs_q THEN 0 ELSE shifted[i]]

shr(self, k) == shr_assign(self, k)

(***************************************************************************)
(* operations.rs: comparison and modular exponentiation                    *)
(***************************************************************************)

\* PartialOrd::partial_cmp, i running from N - 1 down to 0.
RECURSIVE partial_cmp_loop(_, _, _)
partial_cmp_loop(self, other, i) ==
    IF i < 0 THEN "Equal"
    ELSE IF self[i] > other[i] THEN "Greater"
    ELSE IF self[i] < other[i] THEN "Less"
    ELSE partial_cmp_loop(self, other, i - 1)

partial_cmp(self, other) == partial_cmp_loop(self, other, N - 1)

\* self < other
lt(self, other) == partial_cmp(self, other) = "Less"

\* self > other
gt(self, other) == partial_cmp(self, other) = "Greater"

\* self >= other
ge(self, other) == partial_cmp(self, other) \in {"Greater", "Equal"}

\* The loop of powmod on [res, x], bit running from 0 to bits - 1; res and x
\* are values of type Bigi<N> after every iteration.
RECURSIVE powmod_loop(_, _, _, _, _)
powmod_loop(st, p, modulo, bit, bits) ==
    IF bit >= bits THEN st
    ELSE LET res1 == IF get_bit(p, bit)
                     THEN divide(mul(st.res, st.x), modulo).self
                     ELSE st.res
             x1 == divide(mul(st.x, st.x), modulo).self
             st1 == [res |-> res1, x |-> x1]
         IN  IF st1 \in [res : Bigi, x : Bigi]
             THEN powmod_loop(st1, p, modulo, bit + 1, bits)
             ELSE st1

\* self.powmod(p, m)
powmod(self, p, modulo) ==
    powmod_loop([res |-> from(1), x |-> self], p, modulo, 0, bit_length(p)).res

(***************************************************************************)
(* prime.rs: extended Euclidean algorithm                                  *)
(***************************************************************************)

\* The loop of euclidean_extended on [a, b, aa, ab, ba, bb, inv].
RECURSIVE euclidean_extended_loop(_)
euclidean_extended_loop(st) ==
    IF is_zero(st.b) THEN st
    ELSE LET d == divide(st.a, st.b)
             q == d.res
             a1 == d.self
             aa1 == sub_assign(st.aa, mul(q, st.ba))
             ab1 == sub_assign(st.ab, mul(q, st.bb))
         IN  euclidean_extended_loop(
                 [a |-> st.b, b |-> a1,
                  aa |-> st.ba, ba |-> aa1,
                  ab |-> st.bb, bb |-> ab1,
                  inv |-> ~st.inv])

\* euclidean_extended that returns the second coefficient without negating it.
euclidean_extended_nonegate(a, b) ==
    LET st == euclidean_extended_loop(
                  [a |-> a, b |-> b, aa |-> from(1), ab |-> from(0),
                   ba |-> from(0), bb |-> from(1), inv |-> FALSE])
    IN  IF st.inv
        THEN <<st.a, add_assign(st.aa, b), add_assign(st.ab, a)>>
        ELSE <<st.a, st.aa, st.ab>>

\* euclidean_extended without the offset added after an odd number of steps.
euclidean_extended_nooffset(a, b) ==
    LET st == euclidean_extended_loop(
                  [a |-> a, b |-> b, aa |-> from(1), ab |-> from(0),
                   ba |-> from(0), bb |-> from(1), inv |-> FALSE])
        ab1 == sub(from(0), st.ab)
    IN  <<st.a, st.aa, ab1>>

\* euclidean_extended(x, y) = (g, ra, rb)
euclidean_extended(a, b) ==
    LET st == euclidean_extended_loop(
                  [a |-> a, b |-> b, aa |-> from(1), ab |-> from(0),
                   ba |-> from(0), bb |-> from(1), inv |-> FALSE])
        ab1 == sub(from(0), st.ab)
    IN  IF st.inv
        THEN <<st.a, add_assign(st.aa, b), add_assign(ab1, a)>>
        ELSE <<st.a, st.aa, ab1>>

(***************************************************************************)
(* The overflowing multiply and the divide with a known overflow word that *)
(* Modulo::mul and mul_mod call                                            *)
(***************************************************************************)

\* x.multiply_overflowing(y): the pair of the low N words and the high N
\* words of the exact product.
multiply_overflowing(self, other) ==
    LET product == Val(self) * Val(other)
    IN  <<ToBigi(product % Modulus), ToBigi(product \div Modulus)>>

\* self.divide_overflowing(divisor, overflow): the receiver, with overflow as
\* its words above the fixed width, becomes the remainder of the division.
divide_overflowing(self, divisor, overflow) ==
    ToBigi(((Val(overflow) * Modulus) + Val(self)) % Val(divisor))

(***************************************************************************)
(* modulo.rs and prime.rs: modular arithmetic                              *)
(***************************************************************************)

\* The sum reduced by a comparison with the modulus, after it has wrapped.
Modulo_add_wrapping(modulo, a, b) ==
    LET s == add(a, b)
    IN  IF lt(s, modulo) THEN s ELSE sub(s, modulo)

\* Modulo::add
Modulo_add(modulo, a, b) ==
    LET yi == sub(modulo, b)
    IN  IF lt(a, yi) THEN add(a, b) ELSE sub(a, yi)

\* add_mod(x, y, m)
add_mod(a, b, modulo) ==
    LET yi == sub(modulo, b)
    IN  IF lt(a, yi) THEN add(a, b) ELSE sub(a, yi)

\* Modulo::sub with x > y for x >= y.
Modulo_sub_strict(modulo, a, b) ==
    IF gt(a, b)
    THEN [out |-> sub(a, b), wrapped |-> sub_assign_loop(a, b, 0, 0).fw = 1]
    ELSE [out |-> add(sub(modulo, b), a),
          wrapped |-> \/ sub_assign_loop(modulo, b, 0, 0).fw = 1
                      \/ add_assign_loop(sub(modulo, b), a, 0, 0).fw = 1]

\* Modulo::sub: .out is the returned value, .wrapped records a borrow or a
\* carry out of the last word in one of its operators.
Modulo_sub_checked(modulo, a, b) ==
    IF ge(a, b)
    THEN [out |-> sub(a, b), wrapped |-> sub_assign_loop(a, b, 0, 0).fw = 1]
    ELSE [out |-> add(sub(modulo, b), a),
          wrapped |-> \/ sub_assign_loop(modulo, b, 0, 0).fw = 1
                      \/ add_assign_loop(sub(modulo, b), a, 0, 0).fw = 1]

Modulo_sub(modulo, a, b) == Modulo_sub_checked(modulo, a, b).out

\* sub_mod(x, y, m)
sub_mod(a, b, modulo) ==
    IF ge(a, b) THEN sub(a, b) ELSE add(sub(modulo, b), a)

\* The product truncated to the fixed width before the reduction.
Modulo_mul_truncating(modulo, a, b) == divide(mul(a, b), modulo).self

\* Modulo::mul
Modulo_mul(modulo, a, b) ==
    LET pair == multiply_overflowing(a, b)
    IN  divide_overflowing(pair[1], modulo, pair[2])

\* mul_mod(x, y, m)
mul_mod(a, b, modulo) ==
    LET pair == multiply_overflowing(a, b)
    IN  divide_overflowing(pair[1], modulo, pair[2])

\* Modulo::inv
Modulo_inv(modulo, a) == euclidean_extended(a, modulo)[2]

\* inv_mod(x, m)
inv_mod(a, modulo) == euclidean_extended(a, modulo)[2]

\* Modulo::pow
Modulo_pow(modulo, a, k) == powmod(a, k, modulo)

(***************************************************************************)
(* State: the caller's operands x and y, the modulus m of a Modulo          *)
(* instance, the shift count rhs, the value res returned by the last call   *)
(* and the name op of that call.                                            *)
(***************************************************************************)
VARIABLES x, y, m, rhs, res, op

vars == <<x, y, m, rhs, res, op>>

\* Two operands of the arithmetic operators.
Init ==
    /\ x \in Inputs
    /\ y \in Inputs
    /\ m = new
    /\ rhs = 0
    /\ res = new
    /\ op = "init"

\* res = x + &y
Add ==
    /\ op = "init"
    /\ res' = add(x, y)
    /\ op' = "add"
    /\ UNCHANGED <<x, y, m, rhs>>

\* res = x - &y
Sub ==
    /\ op = "init"
    /\ res' = sub(x, y)
    /\ op' = "sub"
    /\ UNCHANGED <<x, y, m, rhs>>

\* res = (x + &y) - &y, the second operator applied to the sum
AddSub ==
    /\ op = "add"
    /\ res' = sub(res, y)
    /\ op' = "add_sub"
    /\ UNCHANGED <<x, y, m, rhs>>

\* res = x * &y
Mul ==
    /\ op = "init"
    /\ res' = mul(x, y)
    /\ op' = "mul"
    /\ UNCHANGED <<x, y, m, rhs>>

\* res = x.divide(&y); division by zero is outside the contract of divide
Divide ==
    /\ op = "init"
    /\ ~is_zero(y)
    /\ LET d == divide(x, y)
       IN  /\ x' = d.self
           /\ res' = d.res
    /\ op' = "divide"
    /\ UNCHANGED <<y, m, rhs>>

\* res = x / &y
Div ==
    /\ op = "init"
    /\ ~is_zero(y)
    /\ LET d == div(x, y)
       IN  /\ x' = d.self
           /\ res' = d.out
    /\ op' = "div"
    /\ UNCHANGED <<y, m, rhs>>

\* res = x % &y
Rem ==
    /\ op = "init"
    /\ ~is_zero(y)
    /\ LET d == rem(x, y)
       IN  /\ x' = d.self
           /\ res' = d.out
    /\ op' = "rem"
    /\ UNCHANGED <<y, m, rhs>>

Next == Add \/ Sub \/ AddSub \/ Mul \/ Divide \/ Div \/ Rem

Spec == Init /\ [][Next]_vars

(***************************************************************************)
(* Claims about the arithmetic operators (specification Spec)              *)
(***************************************************************************)

\* C1: for every dividend and every nonzero divisor, divide returns a
\* quotient q and leaves the receiver equal to a remainder r with
\* (original receiver) = q * divisor + r as exact integers and 0 <= r < divisor.
C1_DivideEuclid ==
    [][op' = "divide" =>
          /\ Val(x) = (Val(res') * Val(y)) + Val(x')
          /\ 0 <= Val(x')
          /\ Val(x') < Val(y)]_vars

\* A division of a dividend that uses all N words by a one-word divisor, with
\* a nonzero remainder.
C1_Witness ==
    /\ op = "divide"
    /\ get_order(y) = 1
    /\ res[N - 1] # 0
    /\ ~is_zero(x)

\* C2: divide changes only its receiver, into the remainder, and leaves the
\* divisor unchanged; the operators / and % leave both operands unchanged and
\* return the quotient and the remainder of divide; no other arithmetic
\* operator changes an operand.
C2_DivideFrame ==
    [][/\ (op' = "divide" => y' = y /\ Val(x') = Val(x) % Val(y))
       /\ (op' = "div" => x' = x /\ y' = y /\ res' = divide(x, y).res)
       /\ (op' = "rem" => x' = x /\ y' = y /\ res' = divide(x, y).self)
       /\ (op' \in {"add", "sub", "add_sub", "mul"} => x' = x /\ y' = y)]_vars

\* The operator / returned a nonzero quotient with a remainder that differs
\* from the dividend.
C2_Witness ==
    /\ op = "div"
    /\ ~is_zero(res)
    /\ divide(x, y).self # x

\* C3: x + y is (x + y) mod 2^(WordBits * N) and x - y is (x - y) mod
\* 2^(WordBits * N), so (x + y) - y = x and x + 0 = x, also when x + y wraps.
C3_AddSubWrap ==
    /\ (op = "add" => Val(res) = (Val(x) + Val(y)) % Modulus)
    /\ (op = "sub" => Val(res) = (Val(x) - Val(y) + Modulus) % Modulus)
    /\ (op = "add_sub" => res = x)
    /\ (op = "add" /\ is_zero(y) => res = x)

\* (x + y) - y was computed for a sum that wraps, with a carry out of word 0
\* into a word 1 whose own sum is all ones.
C3_Witness ==
    /\ op = "add_sub"
    /\ Val(x) + Val(y) >= Modulus
    /\ x[0] + y[0] >= Base
    /\ x[1] + y[1] = Base - 1

\* C4: x * y is the low N words of the exact product, the accumulator of a
\* word pair never overflows the double word, x * 1 = x and x * y = y * x.
C4_MulLow ==
    op = "mul" =>
        /\ Val(res) = (Val(x) * Val(y)) % Modulus
        /\ ~mul_checked(x, y).overflow
        /\ res = mul(y, x)
        /\ (y = from(1) => res = x)

\* A product that exceeds the fixed width, of two operands with all words
\* at the maximum.
C4_Witness ==
    /\ op = "mul"
    /\ Val(x) * Val(y) >= Modulus
    /\ \A i \in Idx : x[i] = Base - 1 /\ y[i] = Base - 1

(***************************************************************************)
(* Specification SpecShift: one operand and a shift count                  *)
(***************************************************************************)

InitShift ==
    /\ x \in Inputs
    /\ y = new
    /\ m = new
    /\ rhs \in 0 .. TotalBits
    /\ res = new
    /\ op = "init"

\* res = x << rhs
Shl ==
    /\ op = "init"
    /\ res' = shl(x, rhs)
    /\ op' = "shl"
    /\ UNCHANGED <<x, y, m, rhs>>

\* res = (x << rhs) >> rhs, the second operator applied to the shifted value
ShlShr ==
    /\ op = "shl"
    /\ res' = shr(res, rhs)
    /\ op' = "shl_shr"
    /\ UNCHANGED <<x, y, m, rhs>>

\* res = x >> rhs
Shr ==
    /\ op = "init"
    /\ res' = shr(x, rhs)
    /\ op' = "shr"
    /\ UNCHANGED <<x, y, m, rhs>>

NextShift == Shl \/ ShlShr \/ Shr

SpecShift == InitShift /\ [][NextShift]_vars

\* The number of bits of the integer v: the least b with v < 2^b.
BitLen(v) == CHOOSE b \in 0 .. TotalBits : v < 2 ^ b /\ (b = 0 \/ v >= 2 ^ (b - 1))

\* C5: (x << k) >> k = x whenever no set bit of x is shifted beyond the fixed
\* width, that is bit_length(x) + k <= WordBits * N.
C5_ShiftRoundTrip ==
    (op = "shl_shr" /\ BitLen(Val(x)) + rhs <= TotalBits) => res = x

\* A round trip with a whole-word part and a sub-word part of the shift count,
\* of a value whose bits cross a word boundary.
C5_Witness ==
    /\ op = "shl_shr"
    /\ rhs \div WordBits > 0
    /\ rhs % WordBits > 0
    /\ get_order(x) = 2
    /\ BitLen(Val(x)) + rhs = TotalBits
    /\ res = x

(***************************************************************************)
(* Specification SpecMod: a Modulo instance with modulus m >= 1 and two    *)
(* residues x, y < m                                                        *)
(***************************************************************************)

\* Digits the modulus and the residues are built from.
ModDigitSamples == {0, 1, Base - 1}

ModInputs == [Idx -> ModDigitSamples]

\* Modulo::new(&m) with m >= 1; x and y are reduced modulo m.
InitMod ==
    /\ m \in ModInputs
    /\ ~is_zero(m)
    /\ x \in ModInputs
    /\ y \in ModInputs
    /\ lt(x, m)
    /\ lt(y, m)
    /\ rhs = 0
    /\ res = new
    /\ op = "init"

\* res = Modulo::new(&m).add(&x, &y)
ModAdd ==
    /\ op = "init"
    /\ res' = Modulo_add(m, x, y)
    /\ op' = "mod_add"
    /\ UNCHANGED <<x, y, m, rhs>>

\* res = Modulo::new(&m).sub(&x, &y)
ModSub ==
    /\ op = "init"
    /\ res' = Modulo_sub(m, x, y)
    /\ op' = "mod_sub"
    /\ UNCHANGED <<x, y, m, rhs>>

\* res = Modulo::new(&m).mul(&x, &y)
ModMul ==
    /\ op = "init"
    /\ res' = Modulo_mul(m, x, y)
    /\ op' = "mod_mul"
    /\ UNCHANGED <<x, y, m, rhs>>

NextMod == ModAdd \/ ModSub \/ ModMul

SpecMod == InitMod /\ [][NextMod]_vars

(***************************************************************************)
(* Specification SpecInv: a Modulo instance with modulus m >= 1 and one    *)
(* residue x < m                                                            *)
(***************************************************************************)

InitInv ==
    /\ m \in Inputs
    /\ ~is_zero(m)
    /\ x \in Inputs
    /\ lt(x, m)
    /\ y = new
    /\ rhs = 0
    /\ res = new
    /\ op = "init"

\* res = Modulo::new(&m).inv(&x)
ModInv ==
    /\ op = "init"
    /\ res' = Modulo_inv(m, x)
    /\ op' = "mod_inv"
    /\ UNCHANGED <<x, y, m, rhs>>

NextInv == ModInv

SpecInv == InitInv /\ [][NextInv]_vars

(***************************************************************************)
(* Specification SpecPow: a Modulo instance with modulus m >= 1, a residue *)
(* x < m and an exponent y                                                  *)
(***************************************************************************)

InitPow ==
    /\ m \in ModInputs
    /\ ~is_zero(m)
    /\ x \in ModInputs
    /\ lt(x, m)
    /\ y \in ModInputs
    /\ rhs = 0
    /\ res = new
    /\ op = "init"

\* res = Modulo::new(&m).pow(&x, &y), y the exponent
ModPow ==
    /\ op = "init"
    /\ res' = Modulo_pow(m, x, y)
    /\ op' = "mod_pow"
    /\ UNCHANGED <<x, y, m, rhs>>

NextPow == ModPow

SpecPow == InitPow /\ [][NextPow]_vars

\* The greatest common divisor of two naturals.
RECURSIVE GCD(_, _)
GCD(a, b) == IF b = 0 THEN a ELSE GCD(b, a % b)

\* b^e mod n for naturals b, e and n >= 1.
RECURSIVE PowMod(_, _, _)
PowMod(b, e, n) ==
    IF e = 0 THEN 1 % n
    ELSE LET h == PowMod(b, e \div 2, n)
             sq == (h * h) % n
         IN  IF e % 2 = 1 THEN (sq * (b % n)) % n ELSE sq

\* C6: for x, y < m, Modulo::add and add_mod return (x + y) mod m, a value in
\* [0, m), also when x + y does not fit in the fixed width.
C6_ModAdd ==
    (op = "mod_add" /\ Val(x) < Val(m) /\ Val(y) < Val(m)) =>
        /\ Val(res) = (Val(x) + Val(y)) % Val(m)
        /\ Val(res) < Val(m)
        /\ add_mod(x, y, m) = res

\* A modular sum whose exact value exceeds the fixed width.
C6_Witness ==
    /\ op = "mod_add"
    /\ Val(x) + Val(y) >= Modulus
    /\ Val(x) < Val(m)
    /\ Val(y) < Val(m)
    /\ ~is_zero(res)

\* C7: for x, y < m, Modulo::sub and sub_mod return (x - y) mod m, a value in
\* [0, m), and no operator inside borrows or carries out of the last word.
C7_ModSub ==
    (op = "mod_sub" /\ Val(x) < Val(m) /\ Val(y) < Val(m)) =>
        /\ Val(res) = (Val(x) - Val(y) + Val(m)) % Val(m)
        /\ Val(res) < Val(m)
        /\ ~Modulo_sub_checked(m, x, y).wrapped
        /\ sub_mod(x, y, m) = res

\* A modular difference of x < y under a modulus that uses the last word.
C7_Witness ==
    /\ op = "mod_sub"
    /\ Val(x) < Val(y)
    /\ Val(y) < Val(m)
    /\ m[N - 1] = Base - 1
    /\ Val(res) = Val(m) - Val(y) + Val(x)

C9_ModInv ==
    (op = "mod_inv" /\ Val(m) >= 2 /\ 0 < Val(x) /\ Val(x) < Val(m)
        /\ GCD(Val(x), Val(m)) = 1) =>
        /\ 1 <= Val(res)
        /\ Val(res) < Val(m)
        /\ (Val(x) * Val(res)) % Val(m) = 1
        /\ inv_mod(x, m) = res

\* An inverse under a modulus that uses the last word, of a value that is not
\* its own inverse.
C9_Witness ==
    /\ op = "mod_inv"
    /\ m[N - 1] = Base - 1
    /\ Val(x) > 1
    /\ GCD(Val(x), Val(m)) = 1
    /\ res # x
    /\ (Val(x) * Val(res)) % Val(m) = 1

\* C10: for every modulus m >= 1, every x < m and every exponent k >= 0,
\* Modulo::pow returns x^k mod m, a value in [0, m).
C10_ModPow ==
    (op = "mod_pow" /\ Val(m) >= 1 /\ Val(x) < Val(m)) =>
        /\ Val(res) = PowMod(Val(x), Val(y), Val(m))
        /\ Val(res) < Val(m)

(***************************************************************************)
(* prime.rs: the Euclidean algorithm                                       *)
(***************************************************************************)

\* The loop of euclidean that stops one step early, when b is one.
RECURSIVE euclidean_loop_early(_, _)
RECURSIVE euclidean_loop(_, _)
euclidean_loop_early(a, b) ==
    IF is_zero(b) \/ b = from(1) THEN a
    ELSE euclidean_loop_early(b, divide(a, b).self)

\* while !b.is_zero() { a.divide(&b); mem::swap(&mut a, &mut b); }  a
euclidean_loop(a, b) ==
    IF is_zero(b) THEN a
    ELSE euclidean_loop(b, divide(a, b).self)

\* euclidean(x, y): the loop runs on clones of x and y.
euclidean(x_in, y_in) == euclidean_loop(x_in, y_in)

(***************************************************************************)
(* Specification of the two Euclidean algorithms on pairs of values        *)
(***************************************************************************)

InitEuclid ==
    /\ x \in ModInputs
    /\ y \in ModInputs
    /\ m = new
    /\ rhs = 0
    /\ res = new
    /\ op = "init"

\* res = euclidean(&x, &y)
Euclidean ==
    /\ op = "init"
    /\ res' = euclidean(x, y)
    /\ op' = "euclidean"
    /\ UNCHANGED <<x, y, m, rhs>>

\* res = euclidean_extended(&x, &y)
EuclideanExtended ==
    /\ op = "init"
    /\ res' = euclidean_extended(x, y)
    /\ op' = "euclidean_extended"
    /\ UNCHANGED <<x, y, m, rhs>>

NextEuclid == Euclidean \/ EuclideanExtended

SpecEuclid == InitEuclid /\ [][NextEuclid]_vars

\* C13: for all a, b not both zero euclidean(a, b) is the greatest common
\* divisor of a and b, with gcd(a, 0) = a and gcd(0, b) = b and with a < b
\* handled by the first swap; the call leaves a and b as they were.
C13_Euclidean ==
    [][(op = "init" /\ op' = "euclidean" /\ ~(is_zero(x) /\ is_zero(y))) =>
        /\ x' = x
        /\ y' = y
        /\ Val(res') = GCD(Val(x), Val(y))
        /\ (is_zero(y) => res' = x)
        /\ (is_zero(x) => res' = y)]_vars

\* A call with a < b whose greatest common divisor is neither one nor an
\* argument.
C13_Witness ==
    /\ op = "euclidean"
    /\ Val(x) < Val(y)
    /\ Val(res) > 1
    /\ Val(res) < Val(x)
    /\ Val(res) = GCD(Val(x), Val(y))

\* C14: for a, b >= 1, euclidean_extended(a, b) = (g, ra, rb) has g = gcd(a, b)
\* and a * ra - b * rb = g as integers, without reduction by the word width.
C14_Bezout ==
    (op = "euclidean_extended" /\ Val(x) >= 1 /\ Val(y) >= 1) =>
        /\ Val(res[1]) = GCD(Val(x), Val(y))
        /\ Val(x) * Val(res[2]) - Val(y) * Val(res[3]) = Val(res[1])

\* A call that ends after an odd number of steps, where the offset is added,
\* with arguments in the last word and both coefficients nonzero.
C14_Witness ==
    /\ op = "euclidean_extended"
    /\ x[N - 1] # 0
    /\ y[N - 1] # 0
    /\ Val(x) < Val(y)
    /\ Val(res[2]) > 1
    /\ Val(res[3]) > 1
    /\ Val(x) * Val(res[2]) - Val(y) * Val(res[3]) = Val(res[1])

(***************************************************************************)
(* operations.rs: remainder of the division by a power of two              *)
(***************************************************************************)

\* mod_2k(k) for k / WordBits < N: the words above word q are zeroed and word
\* q keeps its r low bits.
mod_2k(self, k) ==
    LET q == k \div WordBits
        r == k % WordBits
    IN  [i \in Idx |-> IF i > q THEN 0
                       ELSE IF i = q THEN self[i] % (2 ^ r)
                       ELSE self[i]]

(***************************************************************************)
(* montgomery.rs: MontgomeryAlg { k, n, ni }                               *)
(***************************************************************************)

\* MontgomeryAlg::new(k, n), called with k >= n.bit_length().
Montgomery_new(k, n) ==
    [k |-> k, n |-> n, ni |-> euclidean_extended(shl(from(1), k), n)[3]]

\* (*a << self.k) % &self.n
Montgomery_to_repr(mgr, a) == rem(shl(a, mgr.k), mgr.n).out

\* while res >= self.n { res -= &self.n; }
RECURSIVE Montgomery_reduce(_, _)
Montgomery_reduce(res_in, n) ==
    IF ge(res_in, n) THEN Montgomery_reduce(sub_assign(res_in, n), n)
    ELSE res_in

\* Montgomery multiplication that adds no one to the sum of the two shifted
\* terms.
Montgomery_mul_noincrement(mgr, a, b) ==
    LET t == mul(a, b)
    IN  IF is_zero(t) THEN from(0)
        ELSE Montgomery_reduce(
                 add(shr(mul(mod_2k(mul(mod_2k(t, mgr.k), mgr.ni), mgr.k),
                             mgr.n), mgr.k),
                     shr(t, mgr.k)),
                 mgr.n)

\* MontgomeryAlg::mul
Montgomery_mul(mgr, a, b) ==
    LET t == mul(a, b)
    IN  IF is_zero(t) THEN from(0)
        ELSE Montgomery_reduce(
                 add(add(shr(mul(mod_2k(mul(mod_2k(t, mgr.k), mgr.ni), mgr.k),
                                 mgr.n), mgr.k),
                         shr(t, mgr.k)),
                     from(1)),
                 mgr.n)

\* MontgomeryAlg::from_repr
Montgomery_from_repr(mgr, a) == Montgomery_mul(mgr, a, from(1))

\* The loop of MontgomeryAlg::powmod on [res, a2], bit running from 0 to
\* bits - 1.
RECURSIVE Montgomery_powmod_loop(_, _, _, _, _)
Montgomery_powmod_loop(mgr, st, p, bit, bits) ==
    IF bit >= bits THEN st
    ELSE LET res1 == IF get_bit(p, bit)
                     THEN Montgomery_mul(mgr, st.res, st.a2)
                     ELSE st.res
             a21 == Montgomery_mul(mgr, st.a2, st.a2)
             st1 == [res |-> res1, a2 |-> a21]
         IN  IF st1 \in [res : Bigi, a2 : Bigi]
             THEN Montgomery_powmod_loop(mgr, st1, p, bit + 1, bits)
             ELSE st1

\* MontgomeryAlg::powmod
Montgomery_powmod(mgr, a, p) ==
    Montgomery_powmod_loop(
        mgr, [res |-> Montgomery_to_repr(mgr, from(1)), a2 |-> a], p, 0,
        bit_length(p)).res

(***************************************************************************)
(* Specification of the Montgomery arithmetic: rhs is k, m is the odd      *)
(* modulus n with n.bit_length() <= k and 2k within the width, x < n       *)
(***************************************************************************)

InitMont ==
    /\ rhs \in 1..(TotalBits \div 2)
    /\ m \in Inputs
    /\ is_odd(m)
    /\ bit_length(m) <= rhs
    /\ x \in Inputs
    /\ lt(x, m)
    /\ y \in ModInputs
    /\ res = new
    /\ op = "init"

\* let mgr = MontgomeryAlg::new(rhs, &m);
\* res = mgr.from_repr(&mgr.to_repr(&x))
MontFromRepr ==
    /\ op = "init"
    /\ \E mgr \in {Montgomery_new(rhs, m)} :
         \E xr \in {Montgomery_to_repr(mgr, x)} :
            res' = Montgomery_from_repr(mgr, xr)
    /\ op' = "from_repr"
    /\ UNCHANGED <<x, y, m, rhs>>

\* res = mgr.mul(&x, &y)
MontMul ==
    /\ op = "init"
    /\ lt(y, m)
    /\ \E mgr \in {Montgomery_new(rhs, m)} :
            res' = Montgomery_mul(mgr, x, y)
    /\ op' = "mul"
    /\ UNCHANGED <<x, y, m, rhs>>

\* let xr = mgr.to_repr(&x); let yr = mgr.to_repr(&y);
\* res = mgr.from_repr(&mgr.mul(&xr, &yr))
MontMulRepr ==
    /\ op = "init"
    /\ lt(y, m)
    /\ \E mgr \in {Montgomery_new(rhs, m)} :
         \E xr \in {Montgomery_to_repr(mgr, x)} :
           \E yr \in {Montgomery_to_repr(mgr, y)} :
             \E zr \in {Montgomery_mul(mgr, xr, yr)} :
                res' = Montgomery_from_repr(mgr, zr)
    /\ op' = "mul_repr"
    /\ UNCHANGED <<x, y, m, rhs>>

\* let xr = mgr.to_repr(&x);
\* res = mgr.from_repr(&mgr.powmod(&xr, &y))
MontPowmod ==
    /\ op = "init"
    /\ \E mgr \in {Montgomery_new(rhs, m)} :
         \E xr \in {Montgomery_to_repr(mgr, x)} :
           \E zr \in {Montgomery_powmod(mgr, xr, y)} :
              res' = Montgomery_from_repr(mgr, zr)
    /\ op' = "powmod"
    /\ UNCHANGED <<x, y, m, rhs>>

NextMont == MontFromRepr \/ MontMul \/ MontMulRepr \/ MontPowmod

SpecMont == InitMont /\ [][NextMont]_vars

\* C15: for odd n with n.bit_length() <= k and 2k within the width, and a < n,
\* to_repr(a) is (a * 2^k) mod n and from_repr(to_repr(a)) is a.
C15_MontRoundTrip ==
    op = "from_repr" =>
        /\ Val(Montgomery_to_repr(Montgomery_new(rhs, m), x))
               = (Val(x) * 2 ^ rhs) % Val(m)
        /\ res = x

\* A round trip of a value whose image differs from it, with the largest k.
C15_Witness ==
    /\ op = "from_repr"
    /\ rhs = TotalBits \div 2
    /\ Val(x) > 1
    /\ Montgomery_to_repr(Montgomery_new(rhs, m), x) # x
    /\ res = x

\* C16: mul(x, y) is x * y * 2^(-k) mod n in [0, n), that is mul(x, y) * 2^k
\* is congruent to x * y modulo n, and
\* from_repr(mul(to_repr(a), to_repr(b))) is (a * b) mod n.
C16_MontMul ==
    /\ op = "mul" =>
           /\ Val(res) < Val(m)
           /\ (Val(res) * 2 ^ rhs) % Val(m) = (Val(x) * Val(y)) % Val(m)
    /\ op = "mul_repr" => Val(res) = (Val(x) * Val(y)) % Val(m)

\* C17: from_repr(mgr.powmod(to_repr(a), p)) equals a.powmod(p, n) for every
\* exponent p.
C17_MontPowmod ==
    op = "powmod" => res = powmod(x, y, m)

(***************************************************************************)
(* prime.rs: the quick check against the table of small primes             *)
(***************************************************************************)

\* Bigi::from(u64) of a table entry: the Bigi of that value.  A 64-bit word
\* holds every entry; a word of WordBits bits may not, so the value takes the
\* words it needs.
from_u64(z) == ToBigi(z)

QUICK_PRIMES ==
    <<3, 5, 7, 11, 13, 17, 19, 23, 29, 31, 37, 41,
      43, 47, 53, 59, 61, 67, 71, 73, 79, 83, 89,
      97, 101, 103, 107, 109, 113, 127, 131, 137,
      139, 149, 151, 157, 163, 167, 173, 179, 181,
      191, 193, 197, 199, 211, 223, 227, 229, 233>>

\* The entries of the table that N words hold.  An entry of 2^TotalBits or
\* more is above every x of this width and divides no odd x, so the loop
\* passes over it.
QuickPrimesInWidth == SelectSeq(QUICK_PRIMES, LAMBDA q : q < Modulus)

\* The loop of quick_prime_check that rejects every x a table entry divides,
\* the entry itself included.
RECURSIVE quick_prime_check_loop_noself(_, _)
RECURSIVE quick_prime_check_loop(_, _)
quick_prime_check_loop_noself(x_in, i) ==
    IF i > Len(QuickPrimesInWidth) THEN TRUE
    ELSE LET b == from_u64(QuickPrimesInWidth[i])
         IN  IF is_zero(rem(x_in, b).out) THEN FALSE
             ELSE quick_prime_check_loop_noself(x_in, i + 1)

\* for p in QUICK_PRIMES.iter() { ... }  true
quick_prime_check_loop(x_in, i) ==
    IF i > Len(QuickPrimesInWidth) THEN TRUE
    ELSE LET b == from_u64(QuickPrimesInWidth[i])
         IN  IF is_zero(rem(x_in, b).out) THEN x_in = b
             ELSE quick_prime_check_loop(x_in, i + 1)

quick_prime_check(x_in) ==
    IF is_even(x_in) THEN FALSE ELSE quick_prime_check_loop(x_in, 1)

(***************************************************************************)
(* Specification of quick_prime_check on every value of the samples        *)
(***************************************************************************)

InitQuick ==
    /\ x \in Inputs
    /\ y = new
    /\ m = new
    /\ rhs = 0
    /\ res = FALSE
    /\ op = "init"

\* res = quick_prime_check(&x)
QuickPrimeCheck ==
    /\ op = "init"
    /\ res' = quick_prime_check(x)
    /\ op' = "quick_prime_check"
    /\ UNCHANGED <<x, y, m, rhs>>

NextQuick == QuickPrimeCheck

SpecQuick == InitQuick /\ [][NextQuick]_vars

\* v is a prime number.
IsPrime(v) == v >= 2 /\ \A d \in 2..(v - 1) : v % d # 0

\* Some entry q of the table divides v and is not v.
TableDivides(v) ==
    \E i \in 1..Len(QUICK_PRIMES) : v % QUICK_PRIMES[i] = 0 /\ v # QUICK_PRIMES[i]

\* C20: quick_prime_check(x) is false for every even x; for odd x it is false
\* exactly when some table prime q (3..233) divides x and x # q, so it is true
\* for every odd prime and for every odd x with no prime factor up to 233.
C20_QuickPrimeCheck ==
    op = "quick_prime_check" =>
        /\ Val(x) % 2 = 0 => res = FALSE
        /\ Val(x) % 2 = 1 => (res = FALSE <=> TableDivides(Val(x)))
        /\ (Val(x) % 2 = 1 /\ IsPrime(Val(x))) => res = TRUE
        /\ (Val(x) % 2 = 1 /\ \A q \in 2..233 : ~(IsPrime(q) /\ Val(x) % q = 0))
               => res = TRUE

\* An odd x that the first entry does not divide and a later entry rejects,
\* and which uses the last word.
C20_Witness ==
    /\ op = "quick_prime_check"
    /\ Val(x) % 2 = 1
    /\ Val(x) % 3 # 0
    /\ x[N - 1] # 0
    /\ res = FALSE

(***************************************************************************)
(* random.rs: gen_random, as a function of the words the generator yields  *)
(***************************************************************************)

\* word | (1 << bit)
set_bit(word, bit) ==
    IF (word \div (2 ^ bit)) % 2 = 1 THEN word ELSE word + 2 ^ bit

\* gen_random that leaves the top bit as drawn when strict is set.
gen_random_loose(draw, bits, strict) ==
    LET quotient == bits \div WordBits
        remainder == bits % WordBits
    IN  [i \in Idx |-> IF i < quotient THEN draw[i]
                       ELSE IF i = quotient /\ remainder > 0
                            THEN draw[i] % (2 ^ remainder)
                       ELSE 0]

\* gen_random(rng, bits, strict) for bits <= TotalBits, where draw[i] is the
\* word rng.gen() yields for digit i.
gen_random(draw, bits, strict) ==
    LET quotient == bits \div WordBits
        remainder == bits % WordBits
        filled == [i \in Idx |-> IF i < quotient THEN draw[i] ELSE 0]
    IN  IF remainder > 0
        THEN LET word == draw[quotient] % (2 ^ remainder)
             IN  [filled EXCEPT ![quotient] =
                     IF strict THEN set_bit(word, remainder - 1) ELSE word]
        ELSE IF strict /\ quotient > 0
             THEN [filled EXCEPT ![quotient - 1] = set_bit(@, WordBits - 1)]
             ELSE filled

(***************************************************************************)
(* prime.rs: the Fermat and the Miller-Rabin primality tests               *)
(***************************************************************************)

\* One iteration of the loop of fermat_test with the drawn value a_raw: TRUE
\* when the loop goes on, FALSE when fermat_test returns false.
fermat_test_round(x_in, a_raw) ==
    LET one == from(1)
        p == sub(x_in, one)
        a == rem(a_raw, x_in).out
    IN  IF is_zero(a) THEN TRUE
        ELSE powmod(a, p, x_in) = one

\* while d.is_even() { d >>= 1; s += 1; }  It never ends for d = 0.
RECURSIVE miller_rabin_ds(_, _)
miller_rabin_ds(d, s) ==
    IF is_zero(d) THEN [d |-> d, s |-> s, diverges |-> TRUE]
    ELSE IF is_even(d) THEN miller_rabin_ds(shr_assign(d, 1), s + 1)
    ELSE [d |-> d, s |-> s, diverges |-> FALSE]

\* The inner loop of miller_rabin that never compares b with n.
RECURSIVE miller_rabin_found_blind(_, _, _, _, _)
RECURSIVE miller_rabin_found(_, _, _, _, _)
miller_rabin_found_blind(b, n, x_in, r, s) ==
    IF r >= s THEN FALSE
    ELSE miller_rabin_found_blind(powmod(b, from(2), x_in), n, x_in, r + 1, s)

\* for _r in 0..s { if b == n { found = true; break; } b = b.powmod(&two, &x); }
miller_rabin_found(b, n, x_in, r, s) ==
    IF r >= s THEN FALSE
    ELSE IF b = n THEN TRUE
    ELSE LET b1 == powmod(b, from(2), x_in)
         IN  IF b1 \in Bigi
             THEN miller_rabin_found(b1, n, x_in, r + 1, s)
             ELSE FALSE

\* The iteration of miller_rabin without the skip of a zero base.
miller_rabin_round_noskip(x_in, a_raw) ==
    LET one == from(1)
        n == sub(x_in, one)
        ds == miller_rabin_ds(n, 0)
        a == rem(a_raw, x_in).out
        b == powmod(a, ds.d, x_in)
    IN  IF b # one THEN miller_rabin_found(b, n, x_in, 0, ds.s) ELSE TRUE

\* One iteration of the outer loop of miller_rabin with the drawn value
\* a_raw: TRUE when the loop goes on, FALSE when miller_rabin returns false.
miller_rabin_round(x_in, a_raw) ==
    LET one == from(1)
        n == sub(x_in, one)
        ds == miller_rabin_ds(n, 0)
        a == rem(a_raw, x_in).out
    IN  IF is_zero(a) THEN TRUE
        ELSE LET b == powmod(a, ds.d, x_in)
             IN  IF b # one THEN miller_rabin_found(b, n, x_in, 0, ds.s)
                 ELSE TRUE

(***************************************************************************)
(* Specification of the primality tests: x is the number under test, rhs   *)
(* the iterations of the loop still to run, res is FALSE once the test has *)
(* returned false.  With rhs = 0 and res = TRUE the test returns true.     *)
(***************************************************************************)

\* The largest k the tests are called with.
MaxRounds == 2

\* The numbers under test: 2 .. 2^(TotalBits / 2 + 1), so that the squares
\* of some fit the width and of others do not.
TestInputs == {ToBigi(v) : v \in 2..(2 ^ (TotalBits \div 2 + 1))}

\* The words the random generator yields in one call of gen_random.
RngDraws == ModInputs

InitTest ==
    /\ x \in TestInputs
    /\ rhs \in 0..MaxRounds
    /\ y = new
    /\ m = new
    /\ res = TRUE
    /\ op = "init"

\* One iteration of for _i in 0..k of fermat_test(&x, k).
FermatTestRound ==
    /\ op \in {"init", "fermat_test"}
    /\ res = TRUE
    /\ rhs > 0
    /\ \E a_raw \in {gen_random(draw, bit_length(x), FALSE) : draw \in RngDraws} :
         res' = fermat_test_round(x, a_raw)
    /\ rhs' = rhs - 1
    /\ op' = "fermat_test"
    /\ UNCHANGED <<x, y, m>>

\* One iteration of for _i in 0..k of miller_rabin(&x, k).
MillerRabinRound ==
    /\ op \in {"init", "miller_rabin"}
    /\ res = TRUE
    /\ rhs > 0
    /\ \E a_raw \in {gen_random(draw, bit_length(x), FALSE) : draw \in RngDraws} :
         res' = miller_rabin_round(x, a_raw)
    /\ rhs' = rhs - 1
    /\ op' = "miller_rabin"
    /\ UNCHANGED <<x, y, m>>

NextTest == FermatTestRound \/ MillerRabinRound

SpecTest == InitTest /\ [][NextTest]_vars

\* C18: for every prime x whose square fits the width, every k and every
\* sequence of random bases, neither fermat_test nor miller_rabin returns
\* false.
C18_PrimesPass ==
    (op \in {"fermat_test", "miller_rabin"} /\ IsPrime(Val(x))
        /\ Val(x) * Val(x) < Modulus) => res = TRUE

\* miller_rabin has run all its iterations and returns true on an odd prime
\* x whose square fits, with x - 1 = 2^s * d for an odd d > 1.
C18_Witness ==
    /\ op = "miller_rabin"
    /\ rhs = 0
    /\ res = TRUE
    /\ IsPrime(Val(x))
    /\ Val(x) * Val(x) < Modulus
    /\ Val(x) >= 7

(***************************************************************************)
(* Specification of gen_prime(rng, bits): rhs is bits, x the candidate of  *)
(* the current pass of the loop (zero between two passes), res the         *)
(* iterations that miller_rabin(&x, 100) has still to run                  *)
(***************************************************************************)

\* The k of miller_rabin(&x, 100), scaled.
GenPrimeRounds == 5

InitGen ==
    /\ rhs \in 2..TotalBits
    /\ x = new
    /\ y = new
    /\ m = new
    /\ res = 0
    /\ op = "init"

\* if !quick_prime_check(&x) { continue; }  then miller_rabin starts.
GenPrimeCheck(cand) ==
    IF quick_prime_check(cand)
    THEN x' = cand /\ op' = "miller_rabin" /\ res' = GenPrimeRounds
    ELSE x' = new /\ op' = "gen_prime" /\ res' = 0

\* let x = gen_random(rng, bits, true);  and the check of x.
GenPrimeCandidate ==
    /\ op \in {"init", "gen_prime"}
    /\ \E cand \in {gen_random(draw, rhs, TRUE) : draw \in Inputs} :
         GenPrimeCheck(cand)
    /\ UNCHANGED <<y, m, rhs>>

\* One iteration of miller_rabin(&x, 100) inside gen_prime: after the last
\* one gen_prime returns x; when miller_rabin returns false the loop of
\* gen_prime goes on with a new candidate.
GenPrimeMillerRabin ==
    /\ op = "miller_rabin"
    /\ res > 0
    /\ \E a_raw \in {gen_random(draw, bit_length(x), FALSE) : draw \in RngDraws} :
         IF miller_rabin_round(x, a_raw)
         THEN /\ res' = res - 1
              /\ op' = IF res = 1 THEN "returned" ELSE "miller_rabin"
              /\ x' = x
         ELSE /\ res' = 0
              /\ op' = "gen_prime"
              /\ x' = new
    /\ UNCHANGED <<y, m, rhs>>

NextGen == GenPrimeCandidate \/ GenPrimeMillerRabin

SpecGen == InitGen /\ [][NextGen]_vars

\* C19: a value gen_prime(rng, bits) returns, bits >= 2, has bit_length
\* exactly bits, is odd, and passed quick_prime_check and every iteration of
\* miller_rabin.
C19_GenPrime ==
    op = "returned" =>
        /\ bit_length(x) = rhs
        /\ BitLen(Val(x)) = rhs
        /\ is_odd(x)
        /\ quick_prime_check(x)
        /\ res = 0

\* gen_prime returns a value that takes more than one word and whose top bit
\* is not the top bit of a word.
C19_Witness ==
    /\ op = "returned"
    /\ rhs > WordBits
    /\ rhs % WordBits # 0
    /\ bit_length(x) = rhs

\* The value of F at v, with v computed once: F(v) as a local binding
\* let w = v; F(w).
Bind(v, F(_)) == CHOOSE out \in {F(w) : w \in {v}} : TRUE

(***************************************************************************)
(* prime.rs: the Legendre symbol                                           *)
(***************************************************************************)

\* u64::from(&Bigi), applied to a value below 8 (the result of mod_2k(3) or
\* mod_2k(2)): the low 64-bit word holds such a value whole.
u64_from(a) == Val(a)

\* The halving loop of legendre_symbol without the sign change for p = 3, 5
\* (mod 8).
RECURSIVE legendre_symbol_halve_nosign(_, _)
legendre_symbol_halve_nosign(st, i) ==
    IF is_even(st.ac)
    THEN legendre_symbol_halve_nosign([t |-> st.t, ac |-> shr_assign(st.ac, 1)], i)
    ELSE st

\* while ac.is_even() { ac >>= 1; if i { t = -t; } }  on [t, ac], ac nonzero.
RECURSIVE legendre_symbol_halve(_, _)
legendre_symbol_halve(st, i) ==
    IF is_even(st.ac)
    THEN legendre_symbol_halve(
             [t |-> IF i THEN -st.t ELSE st.t, ac |-> shr_assign(st.ac, 1)], i)
    ELSE st

\* The loop of legendre_symbol without the sign change of the swap.
RECURSIVE legendre_symbol_loop_noswapsign(_)
RECURSIVE legendre_symbol_loop(_)
legendre_symbol_loop_noswapsign(st) ==
    IF is_zero(st.ac) THEN st.t
    ELSE LET r == u64_from(mod_2k(st.pc, 3))
             i == (r = 3) \/ (r = 5)
             h == legendre_symbol_halve([t |-> st.t, ac |-> st.ac], i)
             st1 == [t |-> h.t, ac |-> rem_assign(st.pc, h.ac), pc |-> h.ac]
         IN  IF st1.ac \in Bigi /\ st1.pc \in Bigi
             THEN legendre_symbol_loop_noswapsign(st1)
             ELSE 0

\* while !ac.is_zero() { ... }  t   on [t, ac, pc]
legendre_symbol_loop(st) ==
    IF is_zero(st.ac) THEN st.t
    ELSE LET r == u64_from(mod_2k(st.pc, 3))
             i == (r = 3) \/ (r = 5)
             h == legendre_symbol_halve([t |-> st.t, ac |-> st.ac], i)
             \* mem::swap(&mut ac, &mut pc): pc is h.ac, ac is st.pc
             t1 == IF (r % 4 = 3) /\ (u64_from(mod_2k(h.ac, 2)) = 3)
                   THEN -h.t ELSE h.t
             st1 == [t |-> t1, ac |-> rem_assign(st.pc, h.ac), pc |-> h.ac]
         IN  IF st1.ac \in Bigi /\ st1.pc \in Bigi
             THEN legendre_symbol_loop(st1)
             ELSE 0

legendre_symbol(a, p) == legendre_symbol_loop([t |-> 1, ac |-> a, pc |-> p])

(***************************************************************************)
(* prime.rs: the modular square root (Tonelli-Shanks)                      *)
(***************************************************************************)

\* while q.is_even() { q >>= 1; s += 1; }  It never ends for q = 0.
RECURSIVE sqrt_mod_qs(_, _)
sqrt_mod_qs(q, s) ==
    IF is_zero(q) THEN [q |-> q, s |-> s, diverges |-> TRUE]
    ELSE IF is_even(q) THEN sqrt_mod_qs(shr_assign(q, 1), s + 1)
    ELSE [q |-> q, s |-> s, diverges |-> FALSE]

\* loop { if legendre_symbol(&z, &p) != 1 { break; } z += &one; }
RECURSIVE sqrt_mod_z(_, _)
sqrt_mod_z(z, p) ==
    IF legendre_symbol(z, p) # 1 THEN z
    ELSE sqrt_mod_z(add_assign(z, from(1)), p)

\* while tp != one { tp = mul_mod(&tp, &tp, &p); i += 1; }  After i squarings
\* tp is the 2^i-th power of its first value modulo p.  If that is one for
\* some i it is one for some i < TotalBits, the order of an element modulo p
\* being below 2^TotalBits; so when TotalBits squarings have not reached one
\* the loop never ends, and the result is -1.
RECURSIVE sqrt_mod_i(_, _, _)
sqrt_mod_i(tp, p, i) ==
    IF tp = from(1) THEN i
    ELSE IF i >= TotalBits THEN -1
    ELSE LET tp1 == mul_mod(tp, tp, p)
         IN  IF tp1 \in Bigi THEN sqrt_mod_i(tp1, p, i + 1) ELSE -1

\* The Tonelli-Shanks loop on [r, c, t, m]: while t != one { ... }.  The tag
\* of the result is "Done" when the loop ends, "Diverges" when the inner loop
\* never ends, and "Overflow" when m - i - 1 is negative (a panic of the
\* debug build, a wrapped shift count in the release build).
RECURSIVE sqrt_mod_loop(_, _)
sqrt_mod_loop(st, p) ==
    IF st.t = from(1) THEN [tag |-> "Done", r |-> st.r]
    ELSE Bind(sqrt_mod_i(st.t, p, 0), LAMBDA i :
         IF i = -1 THEN [tag |-> "Diverges", r |-> st.r]
         ELSE IF st.m - i - 1 < 0 THEN [tag |-> "Overflow", r |-> st.r]
         ELSE Bind(powmod(st.c, shl(from(1), st.m - i - 1), p), LAMBDA b :
              Bind(mul_mod(b, b, p), LAMBDA c1 :
              Bind([r |-> mul_mod(st.r, b, p), c |-> c1,
                    t |-> mul_mod(st.t, c1, p), m |-> i], LAMBDA st1 :
              sqrt_mod_loop(st1, p)))))

\* The else branch of sqrt_mod: p - 1 = q * 2^s, the search for z, and the
\* loop started with c, r, t and m.
sqrt_mod_tonelli(n, p) ==
    Bind(sqrt_mod_qs(sub(p, from(1)), 0), LAMBDA qs :
    IF qs.diverges THEN [tag |-> "Diverges", r |-> new]
    ELSE Bind(sqrt_mod_z(from(2), p), LAMBDA z :
         Bind([r |-> powmod(n, shr(add(qs.q, from(1)), 1), p),
               c |-> powmod(z, qs.q, p),
               t |-> powmod(n, qs.q, p),
               m |-> qs.s], LAMBDA st :
         sqrt_mod_loop(st, p))))

\* // Second root: rc = p - r, swapped with r when smaller.
sqrt_mod_roots(p, r) ==
    LET rc == sub(p, r)
    IN  IF lt(rc, r)
        THEN [tag |-> "Ok", r |-> rc, rc |-> r]
        ELSE [tag |-> "Ok", r |-> r, rc |-> rc]

\* sqrt_mod(n, p): tag "Err" for Err("Non-quadratic residue"), tag "Ok" with
\* the pair (r, rc) for Ok((r, rc)); otherwise the call does not return.
sqrt_mod(n, p) ==
    IF legendre_symbol(n, p) # 1 THEN [tag |-> "Err", r |-> new, rc |-> new]
    ELSE Bind(IF mod_2k(p, 2) = from(3)
              THEN [tag |-> "Done", r |-> powmod(n, shr(add(p, from(1)), 2), p)]
              ELSE sqrt_mod_tonelli(n, p), LAMBDA found :
         IF found.tag # "Done"
         THEN [tag |-> found.tag, r |-> new, rc |-> new]
         ELSE sqrt_mod_roots(p, found.r))

(***************************************************************************)
(* Specification of sqrt_mod: m is an odd prime p, x is n in [0, p)        *)
(***************************************************************************)

\* The odd primes among the sample values.
OddPrimes == {c \in Inputs : is_odd(c) /\ IsPrime(Val(c))}

InitSqrt ==
    /\ m \in OddPrimes
    /\ x \in Inputs
    /\ lt(x, m)
    /\ y = new
    /\ rhs = 0
    /\ res = [tag |-> "None", r |-> new, rc |-> new]
    /\ op = "init"

\* res = sqrt_mod(&x, &m)
SqrtMod ==
    /\ op = "init"
    /\ \E out \in {sqrt_mod(x, m)} : res' = out
    /\ op' = "sqrt_mod"
    /\ UNCHANGED <<x, y, m, rhs>>

NextSqrt == SqrtMod

SpecSqrt == InitSqrt /\ [][NextSqrt]_vars

\* v has a square root modulo q.
HasRoot(v, q) == \E w \in 0..(q - 1) : (w * w) % q = v

\* C11: whenever sqrt_mod(n, p) returns Ok((r, s)) for an odd prime p and n in
\* [0, p), r * r mod p = n, s * s mod p = n, r + s = p and r <= s, on the
\* p % 4 = 3 path and on the Tonelli-Shanks path alike.
C11_SqrtRoots ==
    (op = "sqrt_mod" /\ res.tag = "Ok") =>
        /\ (Val(res.r) * Val(res.r)) % Val(m) = Val(x)
        /\ (Val(res.rc) * Val(res.rc)) % Val(m) = Val(x)
        /\ Val(res.r) + Val(res.rc) = Val(m)
        /\ Val(res.r) <= Val(res.rc)

\* C12: sqrt_mod(n, p) yields Err("Non-quadratic residue") exactly when n has
\* no square root modulo p; no error is returned for a residue.
C12_SqrtErr ==
    op = "sqrt_mod" => (res.tag = "Err" <=> ~HasRoot(Val(x), Val(m)))

\* An error for a non-residue of a prime p = 1 (mod 4) in the last word, and
\* so decided before the Tonelli-Shanks branch would run.
C12_Witness ==
    /\ op = "sqrt_mod"
    /\ res.tag = "Err"
    /\ Val(m) % 4 = 1
    /\ m[N - 1] # 0
    /\ Val(x) > 1
    /\ ~HasRoot(Val(x), Val(m))

(***************************************************************************)
(* Specification of legendre_symbol: m is an odd prime p, x is a in [0, p) *)
(***************************************************************************)

InitLegendre ==
    /\ m \in OddPrimes
    /\ x \in Inputs
    /\ lt(x, m)
    /\ y = new
    /\ rhs = 0
    /\ res = 0
    /\ op = "init"

\* res = legendre_symbol(&x, &m)
LegendreSymbol ==
    /\ op = "init"
    /\ \E out \in {legendre_symbol(x, m)} : res' = out
    /\ op' = "legendre_symbol"
    /\ UNCHANGED <<x, y, m, rhs>>

NextLegendre == LegendreSymbol

SpecLegendre == InitLegendre /\ [][NextLegendre]_vars

\* Euler's criterion: v^((q - 1) / 2) mod q, as an exact integer.
Euler(v, q) == PowMod(v, (q - 1) \div 2, q)

\* C21: for an odd prime p and 0 < a < p, legendre_symbol(a, p) is +1 when a
\* is a quadratic residue modulo p and -1 when it is not, and so agrees with
\* Euler's criterion a^((p-1)/2) mod p (1 gives +1, p - 1 gives -1).
C21_Legendre ==
    (op = "legendre_symbol" /\ Val(x) > 0) =>
        /\ res = (IF HasRoot(Val(x), Val(m)) THEN 1 ELSE -1)
        /\ Euler(Val(x), Val(m)) = 1 => res = 1
        /\ Euler(Val(x), Val(m)) = Val(m) - 1 => res = -1
        /\ Euler(Val(x), Val(m)) \in {1, Val(m) - 1}

\* The symbol -1 of an even non-residue of a prime p = 5 (mod 8) in the last
\* word: the halving loop changes the sign.
C21_Witness ==
    /\ op = "legendre_symbol"
    /\ res = -1
    /\ Val(m) % 8 = 5
    /\ m[N - 1] # 0
    /\ is_even(x)
    /\ Val(x) > 0
    /\ ~HasRoot(Val(x), Val(m))

(***************************************************************************)
(* Specification of the shifts for every shift count, the counts with      *)
(* rhs / WordBits > N included                                             *)
(***************************************************************************)

\* shl_assign for every count.  For rhs_q > N the bound N - rhs_q of the first
\* loop underflows usize: the debug build panics there, the release build
\* wraps it and panics on the index of self.digits[i]; no build returns.
shl_assign_checked(self, k) ==
    IF k \div WordBits > N
    THEN [panic |-> TRUE, out |-> self]
    ELSE [panic |-> FALSE, out |-> shl_assign(self, k)]

\* shr_assign for every count.  For rhs_q > N the zeroing loop reaches i = N,
\* where the index N - i - 1 underflows usize: the debug build panics there,
\* the release build wraps it and panics on the index; no build returns.
shr_assign_checked(self, k) ==
    IF k \div WordBits > N
    THEN [panic |-> TRUE, out |-> self]
    ELSE [panic |-> FALSE, out |-> shr_assign(self, k)]

\* Largest shift count tried: one bit beyond (N + 1) words.
MaxShift == TotalBits + WordBits + 1

InitWide ==
    /\ x \in Inputs
    /\ y = new
    /\ m = new
    /\ rhs \in 0 .. MaxShift
    /\ res = [panic |-> FALSE, out |-> new]
    /\ op = "init"

\* res = x << rhs
ShlWide ==
    /\ op = "init"
    /\ res' = shl_assign_checked(x, rhs)
    /\ op' = "shl"
    /\ UNCHANGED <<x, y, m, rhs>>

\* res = x >> rhs
ShrWide ==
    /\ op = "init"
    /\ res' = shr_assign_checked(x, rhs)
    /\ op' = "shr"
    /\ UNCHANGED <<x, y, m, rhs>>

NextWide == ShlWide \/ ShrWide

SpecWide == InitWide /\ [][NextWide]_vars

\* C22: for every x and every count k >= 0, also beyond the width and beyond
\* one more word, x << k completes with (x * 2^k) mod 2^(WordBits * N) and
\* x >> k completes with floor(x / 2^k); every vacated word is zero.
C22_ShiftAnyCount ==
    /\ op = "shl" =>
          /\ ~res.panic
          /\ Val(res.out) = (Val(x) * (2 ^ rhs)) % Modulus
          /\ \A i \in Idx : i < rhs \div WordBits => res.out[i] = 0
    /\ op = "shr" =>
          /\ ~res.panic
          /\ Val(res.out) = Val(x) \div (2 ^ rhs)
          /\ \A i \in Idx : N - i - 1 < rhs \div WordBits => res.out[i] = 0

\* The part of C22 the code meets: the counts up to the width and within the
\* word after it.
ShiftWithinNextWord ==
    (op \in {"shl", "shr"} /\ rhs \div WordBits <= N) =>
        /\ ~res.panic
        /\ op = "shl" => Val(res.out) = (Val(x) * (2 ^ rhs)) % Modulus
        /\ op = "shr" => Val(res.out) = Val(x) \div (2 ^ rhs)

(***************************************************************************)
(* Specification of the loop of divide, one iteration a step: x is the     *)
(* original dividend, y the nonzero divisor, m the receiver self, res the  *)
(* quotient built so far, rhs the word shift shf                           *)
(***************************************************************************)

InitDiv ==
    /\ x \in Inputs
    /\ y \in Inputs
    /\ ~is_zero(y)
    /\ m = x
    /\ rhs = 0
    /\ res = new
    /\ op = "init"

\* let mut res = new(); order1, order2; if order1 >= order2 { shf = ...; loop
DivideEnter ==
    /\ op = "init"
    /\ IF get_order(m) >= get_order(y)
       THEN rhs' = get_order(m) - get_order(y) /\ op' = "loop"
       ELSE rhs' = rhs /\ op' = "done"
    /\ UNCHANGED <<x, y, m, res>>

\* One iteration of loop { ... }: a skip (shf -= 1; continue), the break, or
\* an estimate with its accumulation and reduction.
DivideIterate ==
    /\ op = "loop"
    /\ \E st1 \in {divide_step([self |-> m, res |-> res, shf |-> rhs,
                                done |-> FALSE], y, get_order(y))} :
          /\ m' = st1.self
          /\ res' = st1.res
          /\ rhs' = st1.shf
          /\ op' = IF st1.done THEN "done" ELSE "loop"
    /\ UNCHANGED <<x, y>>

NextDiv == DivideEnter \/ DivideIterate

SpecDiv == InitDiv /\ [][NextDiv]_vars

\* The iteration about to run computes an estimate (it is no skip, no break).
ComputesFactor ==
    op = "loop" /\ ~divide_is_less(m, y, get_order(y), rhs)

\* The estimate of the iteration about to run, as the u128 value.
Factor ==
    divide_factor_u128(m, y, get_order(y), rhs,
                       divide_extra(m, get_order(y), rhs))

\* C23: at every iteration of divide that computes an estimate factor at word
\* shift shf (divisor d nonzero, original dividend a0), factor >= 1, factor
\* fits in one word, factor * d * 2^(WordBits * shf) is at most the current
\* dividend, so the subtraction takes exactly that product from the dividend
\* (no borrow is lost), res.digits[shf] + factor fits in a word, and
\* res * d + dividend = a0 after the iteration; the words of the dividend
\* above index order2 + shf are zero.
C23_DivideInvariant ==
    [][/\ op = "loop" =>
            /\ \A i \in Idx : i > get_order(y) + rhs => m[i] = 0
            /\ (Val(res) * Val(y)) + Val(m) = Val(x)
       /\ ComputesFactor =>
            /\ Factor >= 1
            /\ Factor < Base
            /\ Factor * Val(y) * (Base ^ rhs) <= Val(m)
            /\ res[rhs] + Factor < Base
            /\ Val(m') = Val(m) - (Factor * Val(y) * (Base ^ rhs))
            /\ res' = [res EXCEPT ![rhs] = @ + Factor]
            /\ (Val(res') * Val(y)) + Val(m') = Val(x)
            /\ rhs' = rhs
            /\ \A i \in Idx : i > get_order(y) + rhs => m'[i] = 0]_vars

\* An iteration about to compute a further estimate at a word shift whose
\* quotient digit already holds one, with a nonzero word just above the
\* shifted window of a two-word divisor (the borrow of the reduction goes
\* into that word).
C23_Witness ==
    /\ ComputesFactor
    /\ get_order(y) = 2
    /\ rhs = 0
    /\ m[2] > 0
    /\ res[0] > 0

\* C24: for a, b >= 1 the coefficients of euclidean_extended(a, b) = (g, ra,
\* rb) satisfy 0 <= ra < b and 0 <= rb < a (none is a wrapped negative), also
\* for a = b and for b dividing a.
C24_CoefficientRange ==
    (op = "euclidean_extended" /\ Val(x) >= 1 /\ Val(y) >= 1) =>
        /\ Val(res[2]) < Val(y)
        /\ Val(res[3]) < Val(x)

\* The range the code keeps: ra <= b and rb < a, with ra = b exactly when b
\* divides a.
CoefficientRangeKept ==
    (op = "euclidean_extended" /\ Val(x) >= 1 /\ Val(y) >= 1) =>
        /\ Val(res[2]) <= Val(y)
        /\ Val(res[3]) < Val(x)
        /\ Val(res[2]) = Val(y) <=> Val(x) % Val(y) = 0

\* C25: sqrt_mod(n, p) returns (Ok or Err) for every odd prime p and every n
\* in [0, p), n = 0 and the primes p = 1 (mod 4) included: the search for z,
\* the inner search for i and the Tonelli-Shanks loop end, and m - i - 1 is
\* never negative.
C25_SqrtTerminates ==
    op = "sqrt_mod" => res.tag \in {"Ok", "Err"}

\* The calls that return, apart from the effect of the truncating products of
\* powmod: n > 0 and a prime whose square fits the width.
SqrtReturnsForSmallPrimes ==
    (op = "sqrt_mod" /\ Val(x) > 0 /\ Val(m) * Val(m) < Modulus) =>
        res.tag \in {"Ok", "Err"}

\* sqrt_mod(0, p) does not return for any odd prime p = 1 (mod 4).
SqrtOfZeroDiverges ==
    (op = "sqrt_mod" /\ Val(x) = 0 /\ Val(m) % 4 = 1) => res.tag = "Diverges"

(***************************************************************************)
(* Specification of miller_rabin(&x, k), one loop iteration a step: x is   *)
(* the number under test, rhs the iterations of the outer loop still to    *)
(* run, m the variable d, y the base a of the last iteration, res.s the    *)
(* counter s and res.ret the returned value                                *)
(***************************************************************************)

\* The numbers under test: 1 .. 2^(TotalBits / 2), the last one the least
\* whose square does not fit the width.
MillerRabinInputs == {ToBigi(v) : v \in 1..(2 ^ (TotalBits \div 2))}

InitMR ==
    /\ x \in MillerRabinInputs
    /\ rhs \in 0..MaxRounds
    /\ y = new
    /\ m = new
    /\ res = [s |-> 0, ret |-> "none"]
    /\ op = "init"

\* let n = *x - &one; let mut d = n.clone(); let mut s: usize = 0;
MillerRabinEnter ==
    /\ op = "init"
    /\ m' = sub(x, from(1))
    /\ op' = "decompose"
    /\ UNCHANGED <<x, y, rhs, res>>

\* One test of while d.is_even(), with the body d >>= 1; s += 1 when it
\* holds.  The usize counter s is kept in TotalBits bits, which it fills for
\* d = 0 only: there s += 1 wraps to 0 in the release build and panics in the
\* debug build.
MillerRabinDecompose ==
    /\ op = "decompose"
    /\ IF is_even(m)
       THEN IF res.s + 1 < Modulus
            THEN /\ m' = shr_assign(m, 1)
                 /\ res' = [res EXCEPT !.s = @ + 1]
                 /\ op' = op
            ELSE /\ m' = shr_assign(m, 1)
                 /\ \/ res' = [res EXCEPT !.s = 0] /\ op' = op
                    \/ res' = res /\ op' = "panicked"
       ELSE /\ op' = "rounds"
            /\ UNCHANGED <<m, res>>
    /\ UNCHANGED <<x, y, rhs>>

\* One iteration of for _i in 0..k: the base drawn, and return false when
\* the iteration finds it a witness.
MillerRabinIterate ==
    /\ op = "rounds"
    /\ rhs > 0
    /\ \E a_raw \in {gen_random(draw, bit_length(x), FALSE) : draw \in RngDraws} :
         \E passed \in {miller_rabin_round(x, a_raw)} :
            /\ y' = rem(a_raw, x).out
            /\ IF passed
               THEN rhs' = rhs - 1 /\ op' = op /\ res' = res
               ELSE /\ rhs' = rhs
                    /\ op' = "returned"
                    /\ res' = [res EXCEPT !.ret = "false"]
    /\ UNCHANGED <<x, m>>

\* The loop is over: true
MillerRabinReturnTrue ==
    /\ op = "rounds"
    /\ rhs = 0
    /\ res' = [res EXCEPT !.ret = "true"]
    /\ op' = "returned"
    /\ UNCHANGED <<x, y, m, rhs>>

NextMR ==
    \/ MillerRabinEnter
    \/ MillerRabinDecompose
    \/ MillerRabinIterate
    \/ MillerRabinReturnTrue

SpecMR == InitMR /\ [][NextMR]_vars

\* The call keeps running while it has a step to take.
SpecMRFair == SpecMR /\ WF_vars(NextMR)

\* C26: miller_rabin(x, k) returns for every x >= 1 and every k, whatever
\* bases are drawn: the loop computing x - 1 = d * 2^s and the k trials end
\* (x = 1 and x = 2 included).
C26_MillerRabinTerminates == <>(op = "returned")

\* The calls that return: every x >= 2.
MillerRabinReturnsFromTwo == (Val(x) >= 2) => <>(op = "returned")

\* miller_rabin(1, k) stays in the loop computing d and s.
MillerRabinOfOneLoops ==
    (Val(x) = 1) => [](op \in {"init", "decompose", "panicked"})

\* The odd part d and the exponent s of v = d * 2^s, for v >= 1.
RECURSIVE OddPart(_)
OddPart(v) == IF v % 2 = 0 THEN OddPart(v \div 2) ELSE v

RECURSIVE TwoExponent(_)
TwoExponent(v) == IF v % 2 = 0 THEN 1 + TwoExponent(v \div 2) ELSE 0

\* a is a Miller-Rabin witness of v: a^d mod v # 1 and a^(d * 2^r) mod v #
\* v - 1 for every r < s, where v - 1 = d * 2^s with d odd.
IsWitness(a, v) ==
    /\ PowMod(a, OddPart(v - 1), v) # 1
    /\ \A r \in 0..(TwoExponent(v - 1) - 1) :
          PowMod(a, OddPart(v - 1) * (2 ^ r), v) # v - 1

\* x is odd, at least 3, and its square fits the width.
OddWithSquare == is_odd(x) /\ Val(x) >= 3 /\ Val(x) * Val(x) < Modulus

InitDivFair ==
    /\ x \in Inputs
    /\ y \in ModInputs
    /\ ~is_zero(y)
    /\ m = x
    /\ rhs = 0
    /\ res = new
    /\ op = "init"

\* The loop of divide keeps running while it has an iteration to run.
SpecDivFair == InitDivFair /\ [][NextDiv]_vars /\ WF_vars(NextDiv)

\* C27: divide ends for every dividend and every nonzero divisor: each
\* iteration of its loop breaks, decrements shf, or takes at least
\* divisor * 2^(WordBits * shf) from the dividend (the estimate is never 0
\* while the shifted window of the divisor fits), so the loop is left after
\* finitely many iterations.
C27_DivideTerminates ==
    /\ <>(op = "done")
    /\ [][op = "loop" =>
            \/ op' = "done" /\ rhs = 0
            \/ op' = "loop" /\ rhs' = rhs - 1 /\ m' = m
            \/ /\ op' = "loop"
               /\ rhs' = rhs
               /\ Factor >= 1
               /\ Val(m') <= Val(m) - (Val(y) * (Base ^ rhs))]_vars

\* divide has returned after estimates at two word shifts, with a nonzero
\* remainder.
C27_Witness ==
    /\ op = "done"
    /\ res[0] > 0
    /\ res[1] > 0
    /\ ~is_zero(m)
    /\ get_order(y) = 2

(***************************************************************************)
(* Specification of mod_2k for the counts 0 .. WordBits * N                *)
(***************************************************************************)

\* mod_2k for every count up to the width.  For k / WordBits = N the
\* statement res.digits[q] &= (1 << r) - 1 indexes the array of N words at N:
\* a panic in every build.
mod_2k_checked(self, k) ==
    IF k \div WordBits >= N
    THEN [panic |-> TRUE, out |-> self]
    ELSE [panic |-> FALSE, out |-> mod_2k(self, k)]

InitMod2k ==
    /\ x \in Inputs
    /\ y = new
    /\ m = new
    /\ rhs \in 0 .. TotalBits
    /\ res = [panic |-> FALSE, out |-> new]
    /\ op = "init"

\* res = x.mod_2k(rhs)
Mod2k ==
    /\ op = "init"
    /\ res' = mod_2k_checked(x, rhs)
    /\ op' = "mod_2k"
    /\ UNCHANGED <<x, y, m, rhs>>

NextMod2k == Mod2k

SpecMod2k == InitMod2k /\ [][NextMod2k]_vars

\* C29: for every x and every k with 0 <= k <= WordBits * N (the multiples
\* of the word size and the width itself included) x.mod_2k(k) completes and
\* returns x mod 2^k, and x is unchanged.
C29_Mod2k ==
    [][op' = "mod_2k" =>
          /\ ~res'.panic
          /\ Val(res'.out) = Val(x) % (2 ^ rhs)
          /\ x' = x]_vars

\* The part of C29 the code meets: every count below the width.
Mod2kBelowWidth ==
    (op = "mod_2k" /\ rhs < TotalBits) =>
        (~res.panic /\ Val(res.out) = Val(x) % (2 ^ rhs))

\* The call with k equal to the width does not return.
Mod2kAtWidth == (op = "mod_2k" /\ rhs = TotalBits) => res.panic

(***************************************************************************)
(* gen_prime under a fair source of randomness                             *)
(***************************************************************************)

\* The candidates gen_random(rng, bits, true) can yield.
Candidates(bits) == {gen_random(draw, bits, TRUE) : draw \in Inputs}

\* The loop of gen_prime keeps running: a draw, a check and an iteration of
\* miller_rabin each complete.
\* y keeps the value drawn last, accepted or not.
GenPrimeDraw ==
    /\ op \in {"init", "gen_prime"}
    /\ \E cand \in Candidates(rhs) : y' = cand /\ GenPrimeCheck(cand)
    /\ UNCHANGED <<m, rhs>>

NextGenFair == GenPrimeDraw \/ GenPrimeMillerRabin

SpecGenFair ==
    /\ InitGen
    /\ [][NextGenFair]_vars
    /\ WF_vars(NextGenFair)

\* A fair source: it yields every value of the requested length again and
\* again, so while gen_prime keeps drawing, the value drawn last is an odd
\* prime again and again.
FairSource ==
    []<>(op \in {"init", "gen_prime"}) => []<>(IsPrime(Val(y)) /\ is_odd(y))

\* bits is such that a prime of exactly bits bits exists and its square fits
\* the width.
PrimeOfBitsFits ==
    /\ rhs <= TotalBits \div 2
    /\ \E c \in Candidates(rhs) : IsPrime(Val(c))

\* C28: when a prime of exactly bits bits can be drawn and its square fits the
\* width, gen_prime(rng, bits) under a fair source eventually returns; a
\* candidate rejected by quick_prime_check or by miller_rabin causes a new
\* draw and nothing else, and a prime candidate is never rejected, neither
\* by quick_prime_check when it is drawn nor by an iteration of miller_rabin.
C28_GenPrimeLive ==
    /\ FairSource => (PrimeOfBitsFits => <>(op = "returned"))
    /\ [][/\ op' = "gen_prime" => (x' = new /\ res' = 0 /\ rhs' = rhs)
          /\ op = "gen_prime" => op' \in {"gen_prime", "miller_rabin"}
          /\ (op \in {"init", "gen_prime"} /\ PrimeOfBitsFits
                 /\ IsPrime(Val(y'))) =>
                (x' = y' /\ op' = "miller_rabin")
          /\ (op = "miller_rabin" /\ PrimeOfBitsFits /\ IsPrime(Val(x))) =>
                (x' = x /\ op' \in {"miller_rabin", "returned"})]_vars

\* The same with the prime candidates taken to be the odd ones: gen_prime
\* returns under a fair source, a rejection causes a new draw and nothing
\* else, and an odd prime candidate is never rejected.
GenPrimeLiveOddPrimes ==
    /\ FairSource => (PrimeOfBitsFits => <>(op = "returned"))
    /\ [][/\ op' = "gen_prime" => (x' = new /\ res' = 0 /\ rhs' = rhs)
          /\ op = "gen_prime" => op' \in {"gen_prime", "miller_rabin"}
          /\ (op \in {"init", "gen_prime"} /\ PrimeOfBitsFits
                 /\ IsPrime(Val(y')) /\ is_odd(y')) =>
                (x' = y' /\ op' = "miller_rabin")
          /\ (op = "miller_rabin" /\ PrimeOfBitsFits /\ IsPrime(Val(x))) =>
                (x' = x /\ op' \in {"miller_rabin", "returned"})]_vars

\* The only prime gen_prime draws and turns down, its square fitting the
\* width, is the even one: 2, drawn when bits is 2 and rejected by
\* quick_prime_check.
EvenPrimeCandidateRejected ==
    (op = "gen_prime" /\ PrimeOfBitsFits /\ IsPrime(Val(y))) =>
        (Val(y) = 2 /\ rhs = 2 /\ ~quick_prime_check(y))

\* gen_prime(rng, 2) has drawn the prime 2 and turned it down.
EvenPrimeDrawn == op = "gen_prime" /\ rhs = 2 /\ Val(y) = 2

\* gen_prime has returned a prime of three bits.
GenPrimeReturnsPrime ==
    op = "returned" /\ rhs = 3 /\ IsPrime(Val(x)) /\ y = x
====
